---- MODULE Spec2Model ----
(***************************************************************************)
(* Model of the gego execution engine: the Execution Unit of the scheduler *)
(* (scheduler.executePromptWithRetry / executePromptWithLLM), the ad-hoc   *)
(* Execution Unit of the CLI (cli.executePromptWithLLM), the per-provider  *)
(* rate limiter, and the cron supervisor (Start / Stop / Reload).          *)
(*                                                                         *)
(* Time is counted in seconds and advances in steps of TickSeconds, the    *)
(* refill interval of one limiter token.  All timers are relative (time    *)
(* left), so no absolute clock is kept.                                    *)
(*                                                                         *)
(* Go strings that the code inspects (error messages) are sequences of     *)
(* one-character strings, so that strings.Contains is computed and not     *)
(* assumed.                                                                *)
(***************************************************************************)
EXTENDS Integers, Sequences, FiniteSets, TLC

\* ------------------------------------------------------------------------
\* Program constants

\* DefaultMaxRetries = 3
DefaultMaxRetries == 3
\* DefaultRetryDelay = 30 * time.Second
DefaultRetryDelay == 30
\* retryDelayToUse = 2 * time.Minute
RateLimitRetryDelay == 120
\* RequestsPerMinute = 6
RequestsPerMinute == 6
\* RateLimitBurst = 1
RateLimitBurst == 1
\* const maxRetries = 3 (cli/run.go)
CliMaxRetries == 3
\* const retryDelay = 30 * time.Second (cli/run.go)
CliRetryDelay == 30
\* time.Minute, in seconds
MinuteSeconds == 60
\* schedule.Temperature == -1.0, the "random" sentinel; temperatures are
\* counted in tenths
RandomTemperature == -10
\* the temperature ExecutePrompt passes: 0.7
PromptTemperature == 7

\* ------------------------------------------------------------------------
\* Bounds of the model

\* Generate calls of one provider kept in the one-minute window
MaxStarts == 7
\* entries the cron may hold
MaxEntries == 3
\* attempts of the units of one behaviour that return an error
MaxFailures == 1

\* documents in the Response collection a search runs over
MaxDocs == 2
\* width, in bits, of the int that counts occurrences
CountBits == 3

\* rate.Every(time.Minute / RequestsPerMinute): seconds per token
TickSeconds == MinuteSeconds \div RequestsPerMinute

\* ------------------------------------------------------------------------
\* Strings

\* The characters of each Go string literal and stub message of the model.
Chars(str) ==
    CASE str = "429" ->
          <<"4", "2", "9">>
      [] str = "quota" ->
          <<"q", "u", "o", "t", "a">>
      [] str = "rate limit" ->
          <<"r", "a", "t", "e", " ", "l", "i", "m", "i", "t">>
      [] str = "boom" ->
          <<"b", "o", "o", "m">>
      [] str = "HTTP 429 quota exceeded" ->
          <<"H", "T", "T", "P", " ", "4", "2", "9", " ", "q", "u",
            "o", "t", "a", " ", "e", "x", "c", "e", "e",
            "d", "e", "d">>
      [] str = "Quota exceeded" ->
          <<"Q", "u", "o", "t", "a", " ", "e", "x", "c", "e", "e",
            "d", "e", "d">>
      [] str = "provider not found: " ->
          <<"p", "r", "o", "v", "i", "d", "e", "r", " ", "n", "o",
            "t", " ", "f", "o", "u", "n", "d", ":", " ">>
      [] str = "rate limiter wait failed: " ->
          <<"r", "a", "t", "e", " ", "l", "i", "m", "i", "t", "e",
            "r", " ", "w", "a", "i", "t", " ", "f", "a",
            "i", "l", "e", "d", ":", " ">>
      [] str = "context canceled" ->
          <<"c", "o", "n", "t", "e", "x", "t", " ", "c", "a", "n",
            "c", "e", "l", "e", "d">>
      [] str = "failed to generate response: " ->
          <<"f", "a", "i", "l", "e", "d", " ", "t", "o", " ", "g",
            "e", "n", "e", "r", "a", "t", "e", " ", "r",
            "e", "s", "p", "o", "n", "s", "e", ":", " ">>
      [] str = "LLM error: " ->
          <<"L", "L", "M", " ", "e", "r", "r", "o", "r", ":", " ">>
      [] str = "failed to save response: " ->
          <<"f", "a", "i", "l", "e", "d", " ", "t", "o", " ", "s",
            "a", "v", "e", " ", "r", "e", "s", "p", "o",
            "n", "s", "e", ":", " ">>
      [] str = "LLM provider " ->
          <<"L", "L", "M", " ", "p", "r", "o", "v", "i", "d", "e",
            "r", " ">>
      [] str = " not found" ->
          <<" ", "n", "o", "t", " ", "f", "o", "u", "n", "d">>
      [] str = "openai" ->
          <<"o", "p", "e", "n", "a", "i">>
      [] str = "ollama" ->
          <<"o", "l", "l", "a", "m", "a">>

\* An error message is kept as the list of its fragments, outermost wrapper
\* first (fmt.Errorf("...: %w", err)); Flat is err.Error().
RECURSIVE Flat(_)
Flat(parts) ==
    IF parts = <<>> THEN <<>> ELSE Chars(Head(parts)) \o Flat(Tail(parts))

\* strings.Contains(s, substr)
Contains(s, substr) ==
    \E i \in 1..(Len(s) - Len(substr) + 1) :
        SubSeq(s, i, i + Len(substr) - 1) = substr

\* strings.ToLower on the characters of the model: every upper-case
\* letter is replaced by its lower-case letter
ToLower(s) ==
    LET UpperCase ==
            <<"A", "B", "C", "D", "E", "F", "G", "H", "I", "J", "K", "L",
              "M", "N", "O", "P", "Q", "R", "S", "T", "U", "V", "W", "X",
              "Y", "Z">>
        LowerCase ==
            <<"a", "b", "c", "d", "e", "f", "g", "h", "i", "j", "k", "l",
              "m", "n", "o", "p", "q", "r", "s", "t", "u", "v", "w", "x",
              "y", "z">>
        LowerChar(c) ==
            IF \E i \in 1..Len(UpperCase) : UpperCase[i] = c
            THEN LowerCase[CHOOSE i \in 1..Len(UpperCase) : UpperCase[i] = c]
            ELSE c
    IN  [i \in 1..Len(s) |-> LowerChar(s[i])]

\* strings.Index(s, substr): the byte offset of the first occurrence, or -1
Index(s, substr) ==
    LET at == {i \in 1..(Len(s) - Len(substr) + 1) :
                  SubSeq(s, i, i + Len(substr) - 1) = substr}
    IN  IF at = {} THEN -1
        ELSE (CHOOSE i \in at : \A j \in at : i <= j) - 1

\* ------------------------------------------------------------------------
\* Domains

\* slots in which Execution Units run
Units == {"u1"}
\* provider tags used by the models of the configuration
Providers == {"openai", "ollama"}
\* who launched the unit: a cron firing (context.Background()), a caller of
\* Scheduler.ExecuteNow / ExecutePrompt (the caller's context), or the CLI
\* run-once mode
Origins == {"cron", "api", "once"}
\* schedules of the configuration store
SchedIds == {"s1", "s2"}
\* failure messages the stub adapter and the stub store produce
FailMsgs == {"boom", "HTTP 429 quota exceeded", "Quota exceeded"}
\* what one adapter.generate call returns: a result, a transport error
\* (nil, err), or a non-nil result with a non-empty Error string
GenKinds == {"ok", "terr", "rerr"}
\* prompts and models of the configuration store
PromptIds == {"p1", "p2"}
LlmIds == {"m1", "m2"}
\* the order in which ListPrompts and ListLLMs return the rows
PromptOrder == <<"p1", "p2">>
LlmOrder == <<"m1", "m2">>
\* prompt_ids and llm_ids a stored schedule may carry (createSchedule
\* takes any non-empty list of existing ids), and the llmIDs argument of
\* ExecutePrompt
PromptIdLists == {<<"p1">>, <<"p1", "p2">>, <<"p1", "p1">>}
LlmIdLists == {<<"m1">>, <<"m1", "m2">>, <<"m1", "m1">>}
\* temperatures a schedule or a run-once run carries, in tenths: the
\* sentinel, or a value of [0.0, 1.0]
Temperatures == {RandomTemperature, 0, 10}
\* values rand.Float64() returns, in tenths: [0.0, 1.0)
Samples == {0, 9}
\* versions of a prompt's template and of a model's name
Versions == {1, 2}
\* who runs the fan-out: a cron job, ExecuteNow, ExecutePrompt, runOnceMode
FiringKinds == {"cron", "now", "prompt", "once"}

VARIABLES
    eu,         \* [Units -> Execution Unit state]
    registry,   \* provider names that have an adapter in llm.Registry
    rows,       \* Response store: the rows that reference the invocation
                \* held by each slot, in insertion order
    debt,       \* per provider: seconds until its token bucket is full again
    limiters,   \* providers whose rate.Limiter has been created
    genStarts,  \* per provider: ages (seconds) of the Generate calls that
                \* started less than a minute ago; a record of the past
                \* that only SpecRate keeps
    schedules,  \* configuration store: [SchedIds -> [enabled]]
    running,    \* Scheduler.running
    cronRunning,    \* whether the cron.Cron of the scheduler is running
    cronEntries,    \* the entries of that cron.Cron: the schedule each job
                    \* function was registered for, in EntryID order
    scheduleEntries,    \* Scheduler.scheduleEntries: schedule id -> EntryID
    jobs,       \* job functions a tick has started and that have not yet
                \* launched their units
    reloadPc,   \* where a caller of Reload stands: "none", or "paused"
                \* between its Stop and its Start
    reloaded,   \* TRUE from the moment a Reload returned nil until the
                \* next Start, Stop, Reload or edit of a schedule
    prompts,    \* configuration store: [PromptIds -> [exists, enabled,
                \* template]], the template given by its version number
    llms,       \* configuration store: [LlmIds -> [exists, enabled, name]],
                \* name standing for Name, Provider and Model
    schedule,   \* the Schedule row a firing works on: [enabled, promptIDs,
                \* llmIDs, temperature]
    firing,     \* the run in progress (executeSchedule, ExecutePrompt or
                \* runOnceMode): [pc, kind, prompts, llms, lastRunWritten,
                \* seen]
    fu,         \* the Execution Units that run launched, in launch order
    used,       \* [failures, edited]: failed attempts so far, and whether
                \* the store was edited during a run
    alive,      \* the process is running
    panicked,   \* where a panic was raised: "none", "job" or "unit"
    docs,       \* Response store as the keyword search reads it: the
                \* documents [text, at], in insertion order
    search,     \* the SearchKeyword call in progress
    llmTable,   \* the llms table of the configuration store: its rows, in
                \* the order of their created_at
    adapters,   \* llm.Registry: provider name -> the adapter registered
                \* under it, given by the apiKey and baseURL it holds
    calls,      \* the Generate calls made so far: [llm, config, apiKey,
                \* baseURL], config being the bag passed and apiKey, baseURL
                \* what the adapter puts on the request
    conn,       \* the persistence facade of the process: [sql, nosql,
                \* result]: whether SQLite.db and MongoDB.client hold a
                \* connection, and what HybridDB.Connect returned ("none"
                \* before the call)
    schedRow,   \* the schedules row of one schedule: [none, cfg, enabled,
                \* lastRun], lastRun 0 being NULL
    mem,        \* the *models.Schedule of that schedule which Start listed
                \* and its job function captured (none: not yet)
    job,        \* the executeSchedule calls on that schedule: [JobIds ->
                \* [pc, kind, own]], own being the struct ExecuteNow read
    rateLimiters,   \* Scheduler.rateLimiters: provider -> rate.Limiter
    rateMu,     \* Scheduler.rateMu: [writer, readers], who holds it
    created,    \* the provider of every rate.NewLimiter call, in order
    gl          \* the getRateLimiter calls: [Callers -> [pc, provider,
                \* limiter, missed]], limiter being what the call holds
                \* and missed whether its first lookup found nothing

supVars ==
    <<schedules, running, cronRunning, cronEntries, scheduleEntries, jobs,
      reloadPc, reloaded>>

fireVars == <<prompts, llms, schedule, firing, fu, used, alive, panicked>>

vars ==
    <<eu, registry, rows, debt, limiters, genStarts, schedules, running,
      cronRunning, cronEntries, scheduleEntries, jobs, reloadPc, reloaded,
      prompts, llms, schedule, firing, fu, used, alive, panicked,
      docs, search, llmTable, adapters, calls, conn, schedRow, mem, job,
      rateLimiters, rateMu, created, gl>>

searchVars == <<docs, search>>
bagVars == <<llmTable, adapters, calls, conn>>
jobVars == <<schedRow, mem, job>>
limVars == <<rateLimiters, rateMu, created, gl>>

\* the state of the components beside the scheduler
toolVars == <<searchVars, bagVars, jobVars, limVars>>

\* what the specifications of the scheduler leave alone
restVars == <<fireVars, toolVars>>

EmptyMap == [x \in {} |-> 0]
MapPut(m, k, v) == [x \in DOMAIN m \cup {k} |-> IF x = k THEN v ELSE m[x]]

NoResponse == [text |-> "", error |-> <<>>, none |-> TRUE]

IdleUnit ==
    [pc |-> "idle", origin |-> "cron", prov |-> "openai", cancelled |-> FALSE,
     earlyCancel |-> FALSE, stopSeen |-> FALSE, attempt |-> 0, hist |-> <<>>,
     inserts |-> 0, insFails |-> 0,
     pending |-> NoResponse, lastErr |-> <<>>, delay |-> 0, timer |-> 0]

\* no run in progress
IdleFiring ==
    [pc |-> "idle", kind |-> "cron", prompts |-> <<>>, llms |-> <<>>,
     lastRunWritten |-> FALSE, seen |-> <<>>]

\* the store and the process before any run
InitStore ==
    /\ firing = IdleFiring
    /\ fu = <<>>
    /\ used = [failures |-> 0, edited |-> FALSE]
    /\ alive = TRUE
    /\ panicked = "none"

\* one stored configuration, for the specifications that do not look at
\* the fan-out
InitOneConfig ==
    /\ InitStore
    /\ prompts = [p \in PromptIds |->
                     [exists |-> TRUE, enabled |-> TRUE, template |-> 1]]
    /\ llms = [m \in LlmIds |-> [exists |-> TRUE, enabled |-> TRUE, name |-> 1]]
    /\ schedule = [enabled |-> TRUE, promptIDs |-> <<"p1">>,
                   llmIDs |-> <<"m1">>, temperature |-> 0]

\* no SearchKeyword call in progress
IdleSearch ==
    [pc |-> "idle", keyword |-> <<>>, startTime |-> 0, endTime |-> 0,
     cursor |-> <<>>, lower |-> <<>>, lowerKeyword |-> <<>>, index |-> 0,
     count |-> 0, TotalMentions |-> 0]

\* the components beside the scheduler, before their first use: empty
\* stores but for one schedule, no query, no registry, no job
InitTools ==
    /\ docs = <<>>
    /\ search = IdleSearch
    /\ llmTable = <<>>
    /\ adapters = EmptyMap
    /\ calls = {}
    /\ conn = [sql |-> FALSE, nosql |-> FALSE, result |-> "none"]
    /\ schedRow = [none |-> FALSE, cfg |-> 1, enabled |-> TRUE, lastRun |-> 0]
    /\ mem = [none |-> TRUE, cfg |-> 1, enabled |-> TRUE, lastRun |-> 0]
    /\ job = [j \in {1, 2} |-> [pc |-> "idle", kind |-> "cron", own |-> mem]]
    /\ rateLimiters = EmptyMap
    /\ rateMu = [writer |-> "none", readers |-> {}]
    /\ created = <<>>
    /\ gl = [c \in {"g1", "g2", "g3"} |->
                [pc |-> "idle", provider |-> "openai", limiter |-> 0,
                 missed |-> FALSE]]

\* The text the stub adapter returns on its n-th call for a unit.
TextOf(n) == <<"ok", n>>

\* ------------------------------------------------------------------------
\* Pure helpers of the Execution Unit

\* llmRegistry.Get(name): (provider, ok)
RegistryGet(p) == p \in registry

\* part_013:297  the rate-limit classification of executePromptWithRetry,
\* on err.Error()
IsRateLimitError(msg) ==
    \/ Contains(msg, Chars("429"))
    \/ Contains(msg, Chars("quota"))
    \/ Contains(msg, Chars("rate limit"))

\* part_013:296-300  retryDelayToUse
RetryDelayToUse(msg) ==
    IF IsRateLimitError(Flat(msg)) THEN RateLimitRetryDelay ELSE DefaultRetryDelay

\* a loop that runs one iteration too many
LoopCondOffByOne(attempt) == attempt <= DefaultMaxRetries + 1

\* part_013:281  the loop condition attempt <= maxRetries
LoopCond(attempt) == attempt <= DefaultMaxRetries

\* part_013:303  "Don't wait after the last attempt"
WaitBeforeRetry(attempt) == attempt < DefaultMaxRetries

\* part_013:281  attempt++ and the loop test; the loop's exit returns the
\* "failed after %d attempts" error
NextIteration(r) ==
    IF LoopCond(r.attempt + 1)
    THEN [r EXCEPT !.attempt = r.attempt + 1, !.pc = "attempt"]
    ELSE [r EXCEPT !.attempt = r.attempt + 1, !.pc = "failed"]

\* part_013:292-306  executePromptWithLLM returned err: remember it, pick the
\* delay, sleep unless this was the last attempt
AttemptFailed(r, msg) ==
    LET r1 == [r EXCEPT !.lastErr = msg, !.delay = RetryDelayToUse(msg),
                        !.pending = NoResponse]
    IN  IF WaitBeforeRetry(r.attempt)
        THEN [r1 EXCEPT !.pc = "sleep", !.timer = r1.delay]
        ELSE NextIteration(r1)

\* cli/run.go:217  if attempt < maxRetries
CliWaitBeforeRetry(attempt) == attempt < CliMaxRetries

\* cli/run.go:215-235  a failed Generate in the CLI loop: sleep retryDelay
\* and continue, or return lastErr on the last attempt
CliAttemptFailed(r, msg) ==
    LET r1 == [r EXCEPT !.lastErr = msg] IN
    IF CliWaitBeforeRetry(r.attempt)
    THEN [r1 EXCEPT !.pc = "sleep", !.timer = CliRetryDelay,
                    !.delay = CliRetryDelay]
    ELSE [r1 EXCEPT !.pc = "failed"]

\* MongoDB.CreateResponse: the document that is inserted.  The document has
\* no "error" key, so the stored row reads back with an empty error.
Doc(response) == [text |-> response.text, error |-> <<>>]

IsSched(r) == r.origin \in {"cron", "api"}
Terminal(r) == r.pc \in {"done", "failed"}
GenCalls(u) == Len(eu[u].hist)

\* ------------------------------------------------------------------------
\* Initial state

\* after scheduler.New and the opening of the stores: nothing launched, no
\* limiter created, an empty cron
InitEngine ==
    /\ eu = [u \in Units |-> IdleUnit]
    /\ registry = {"openai"}
    /\ rows = [u \in Units |-> <<>>]
    /\ debt = [p \in Providers |-> 0]
    /\ limiters = {}
    /\ genStarts = [p \in Providers |-> <<>>]
    /\ running = FALSE
    /\ cronRunning = FALSE
    /\ cronEntries = <<>>
    /\ scheduleEntries = EmptyMap
    /\ jobs = <<>>
    /\ reloadPc = "none"
    /\ reloaded = FALSE

Init ==
    /\ InitEngine
    /\ InitOneConfig
    /\ InitTools
    /\ schedules = [s \in SchedIds |-> [enabled |-> TRUE]]

\* ------------------------------------------------------------------------
\* Execution Unit

\* A firing (executeSchedule), ExecuteNow / ExecutePrompt, or runOnceMode
\* starts the unit for one (prompt, model) pair.
Launched(u, o, p) ==
    /\ eu[u].pc = "idle"
    /\ eu' = [eu EXCEPT ![u] = [IdleUnit EXCEPT !.pc = "attempt", !.origin = o,
                                                !.prov = p, !.attempt = 1]]

Launch(u, o, p) ==
    /\ Launched(u, o, p)
    /\ UNCHANGED <<supVars, registry, rows, debt, limiters, genStarts>>

\* Scheduler: executePromptWithLLM up to rateLimiter.Wait (part_013:317-333).
\* CLI: the registry lookup before the loop (cli/run.go:199-202).
BeginAttempt(u) ==
    LET r == eu[u] IN
    /\ r.pc = "attempt"
    /\ IF IsSched(r)
       THEN IF ~RegistryGet(r.prov)
            THEN /\ eu' = [eu EXCEPT ![u] =
                       AttemptFailed(r, <<"provider not found: ", r.prov>>)]
                 /\ UNCHANGED <<debt, limiters>>
            ELSE IF r.cancelled
            THEN \* Wait returns ctx.Err() at once, nothing is reserved
                 /\ eu' = [eu EXCEPT ![u] =
                       AttemptFailed(r, <<"rate limiter wait failed: ", "context canceled">>)]
                 /\ limiters' = limiters \cup {r.prov}
                 /\ UNCHANGED debt
            ELSE \* reserve the next token; wait until it is due
                 /\ eu' = [eu EXCEPT ![u] =
                       [r EXCEPT !.pc = "limiter", !.timer = debt[r.prov]]]
                 /\ debt' = [debt EXCEPT ![r.prov] = @ + TickSeconds]
                 /\ limiters' = limiters \cup {r.prov}
       ELSE /\ IF ~RegistryGet(r.prov)
               THEN eu' = [eu EXCEPT ![u] =
                       [r EXCEPT !.pc = "failed",
                                 !.lastErr = <<"LLM provider ", r.prov, " not found">>]]
               ELSE eu' = [eu EXCEPT ![u] = [r EXCEPT !.pc = "generate"]]
            /\ UNCHANGED <<debt, limiters>>
    /\ UNCHANGED <<supVars, registry, rows, genStarts>>

\* rateLimiter.Wait returns (part_013:330-333): the token is due, or the
\* context was cancelled while waiting.
LimiterReturn(u) ==
    LET r == eu[u] IN
    /\ r.pc = "limiter"
    /\ r.timer = 0 \/ r.cancelled
    /\ IF r.cancelled
       THEN eu' = [eu EXCEPT ![u] =
               AttemptFailed([r EXCEPT !.timer = 0],
                             <<"rate limiter wait failed: ", "context canceled">>)]
       ELSE eu' = [eu EXCEPT ![u] = [r EXCEPT !.pc = "generate"]]
    /\ UNCHANGED <<supVars, registry, rows, debt, limiters, genStarts>>

\* provider.Generate is called and returns (part_013:350-392, and
\* cli/run.go:210-251): the Response to insert is built, or, in the CLI,
\* the failure goes to the retry loop.
Generated(u, kind, msg) ==
    LET r == eu[u]
        n == Len(r.hist) + 1
        r1 == [r EXCEPT !.hist = Append(r.hist, kind)]
    IN
    /\ r.pc = "generate"
    /\ IF IsSched(r)
       THEN eu' = [eu EXCEPT ![u] =
              [r1 EXCEPT !.pc = "insert",
                         !.pending =
                            IF kind = "ok"
                            THEN [text |-> TextOf(n), error |-> <<>>, none |-> FALSE]
                            ELSE [text |-> "", error |-> <<msg>>, none |-> FALSE]]]
       ELSE IF kind = "terr"
            THEN eu' = [eu EXCEPT ![u] =
                         CliAttemptFailed(r1, <<"failed to generate response: ", msg>>)]
       ELSE IF kind = "rerr"
            THEN eu' = [eu EXCEPT ![u] =
                         CliAttemptFailed(r1, <<"LLM error: ", msg>>)]
       ELSE eu' = [eu EXCEPT ![u] =
              [r1 EXCEPT !.pc = "insert",
                         !.pending = [text |-> TextOf(n), error |-> <<>>,
                                      none |-> FALSE]]]
    /\ UNCHANGED <<supVars, registry, rows, debt, limiters>>

Generate(u, kind, msg) ==
    /\ Generated(u, kind, msg)
    /\ UNCHANGED genStarts

\* the same step with the start of the call written to the minute window
GenerateTimed(u, kind, msg) ==
    /\ Generated(u, kind, msg)
    /\ genStarts' = [genStarts EXCEPT ![eu[u].prov] = Append(@, 0)]

\* db.CreateResponse returns (part_013:371, 394 and cli/run.go:253-262).
Insert(u, ok, msg) ==
    LET r == eu[u]
        r1 == [r EXCEPT !.inserts = r.inserts + 1]
    IN
    /\ r.pc = "insert"
    /\ IF ok
       THEN /\ rows' = [rows EXCEPT ![u] = Append(@, Doc(r.pending))]
            /\ eu' = [eu EXCEPT ![u] = [r1 EXCEPT !.pc = "done"]]
       ELSE /\ rows' = rows
            /\ eu' = [eu EXCEPT ![u] =
                 LET r2 == [r1 EXCEPT !.insFails = r.insFails + 1] IN
                 IF IsSched(r)
                 THEN AttemptFailed(r2, <<msg>>)
                 ELSE [r2 EXCEPT !.pc = "failed",
                                 !.lastErr = <<"failed to save response: ", msg>>]]
    /\ UNCHANGED <<supVars, registry, debt, limiters, genStarts>>

\* time.Sleep returns (part_013:305, cli/run.go:220, 231) and the loop goes
\* to its next iteration.
Sleep(u) ==
    LET r == eu[u] IN
    /\ r.pc = "sleep"
    /\ r.timer = 0
    /\ IF IsSched(r)
       THEN eu' = [eu EXCEPT ![u] = NextIteration(r)]
       ELSE eu' = [eu EXCEPT ![u] =
                    [r EXCEPT !.attempt = r.attempt + 1, !.pc = "generate"]]
    /\ UNCHANGED <<supVars, registry, rows, debt, limiters, genStarts>>

\* The caller of ExecuteNow / ExecutePrompt cancels its context.
Cancel(u) ==
    /\ eu[u].origin = "api"
    /\ ~Terminal(eu[u])
    /\ eu[u].pc # "idle"
    /\ ~eu[u].cancelled
    /\ eu' = [eu EXCEPT ![u].cancelled = TRUE,
                         ![u].earlyCancel = (eu[u].hist = <<>>)]
    /\ UNCHANGED <<supVars, registry, rows, debt, limiters, genStarts>>

\* ------------------------------------------------------------------------
\* Time

Max(a, b) == IF a > b THEN a ELSE b

\* ages grow by d; a start older than a minute leaves the window
Aged(s, d) ==
    LET keep == {i \in 1..Len(s) : s[i] + d < MinuteSeconds}
    IN  [i \in 1..Cardinality(keep) |-> s[i + (Len(s) - Cardinality(keep))] + d]

\* TickSeconds pass: sleeps and limiter waits come closer, buckets refill.
Tick ==
    /\ \/ \E u \in Units : eu[u].timer > 0
       \/ \E p \in Providers : debt[p] > 0 \/ genStarts[p] # <<>>
    /\ eu' = [u \in Units |->
                [eu[u] EXCEPT !.timer = Max(0, eu[u].timer - TickSeconds)]]
    /\ debt' = [p \in Providers |-> Max(0, debt[p] - TickSeconds)]
    /\ genStarts' = [p \in Providers |-> Aged(genStarts[p], TickSeconds)]
    /\ UNCHANGED <<supVars, registry, rows, limiters>>

\* ------------------------------------------------------------------------

\* One more invocation may use the slot: the goroutine of a finished unit has
\* returned (wg.Done), or runOnceMode's loop goes on to its next pair.  The
\* rows of the finished invocation stay in the store; they leave the
\* projection that `rows` keeps.
Retire(u) ==
    /\ Terminal(eu[u])
    /\ eu' = [eu EXCEPT ![u] = IdleUnit]
    /\ rows' = [rows EXCEPT ![u] = <<>>]
    /\ UNCHANGED <<supVars, registry, debt, limiters, genStarts>>

\* ------------------------------------------------------------------------
\* Cron supervisor (Scheduler.Start, Stop, Reload) and the cron library as
\* the scheduler uses it: one cron.Cron made in New and kept for the life
\* of the Scheduler; AddFunc appends an entry; Stop halts the ticking and
\* keeps the entries; nothing in the scheduler removes an entry.

\* the order in which ListSchedules returns the rows
SchedOrder == <<"s1", "s2">>

IsEnabled(s) == schedules[s].enabled

\* db.ListSchedules(ctx, boolPtr(true))
ListEnabled == SelectSeq(SchedOrder, IsEnabled)

EntryCount(s) == Cardinality({i \in 1..Len(cronEntries) : cronEntries[i] = s})

\* registerSchedule for every listed schedule, in order: cron.AddFunc gives
\* the next EntryID, which is stored under the schedule's id
RECURSIVE RegisterAll(_, _, _)
RegisterAll(list, entries, map) ==
    IF list = <<>>
    THEN [entries |-> entries, map |-> map]
    ELSE RegisterAll(Tail(list), Append(entries, Head(list)),
                     MapPut(map, Head(list), Len(entries) + 1))

\* the body of Scheduler.Start under s.mu, when s.running is false
Started ==
    LET reg == RegisterAll(ListEnabled, cronEntries, scheduleEntries) IN
    /\ Len(cronEntries) + Len(ListEnabled) <= MaxEntries
    /\ cronEntries' = reg.entries
    /\ scheduleEntries' = reg.map
    /\ cronRunning' = TRUE
    /\ running' = TRUE

\* the body of Scheduler.Stop under s.mu, when s.running is true.  The
\* units in flight are not touched: their context is context.Background()
\* and their sleeps are time.Sleep.  stopSeen only records which units were
\* in flight.
Stopped ==
    /\ cronRunning' = FALSE
    /\ running' = FALSE
    /\ scheduleEntries' = EmptyMap
    /\ eu' = [u \in Units |->
                IF eu[u].origin = "cron" /\ eu[u].pc # "idle" /\ ~Terminal(eu[u])
                THEN [eu[u] EXCEPT !.stopSeen = TRUE]
                ELSE eu[u]]

\* Scheduler.Start, by any caller and at any time: s.mu is held for the
\* length of this call only, also while a caller of Reload sleeps
Start ==
    /\ ~running
    /\ Started
    /\ reloaded' = FALSE
    /\ UNCHANGED <<eu, registry, rows, debt, limiters, genStarts, schedules,
                   jobs, reloadPc>>

\* Scheduler.Stop, by any caller and at any time (s.mu as for Start)
Stop ==
    /\ running
    /\ Stopped
    /\ reloaded' = FALSE
    /\ UNCHANGED <<registry, rows, debt, limiters, genStarts, schedules,
                   cronEntries, jobs, reloadPc>>

\* Scheduler.Reload, first half: s.Stop() and the 100 ms sleep begins
ReloadStop ==
    /\ reloadPc = "none"
    /\ reloadPc' = "paused"
    /\ reloaded' = FALSE
    /\ IF running
       THEN Stopped
       ELSE UNCHANGED <<cronRunning, running, scheduleEntries, eu>>
    /\ UNCHANGED <<registry, rows, debt, limiters, genStarts, schedules,
                   cronEntries, jobs>>

\* Scheduler.Reload, second half: return s.Start(ctx)
ReloadStart ==
    /\ reloadPc = "paused"
    /\ ~running
    /\ Started
    /\ reloadPc' = "none"
    /\ reloaded' = TRUE
    /\ UNCHANGED <<eu, registry, rows, debt, limiters, genStarts, schedules,
                   jobs>>

\* Scheduler.Reload, second half, when another caller started the scheduler
\* during the sleep: s.Start returns "scheduler already running"
ReloadStartFails ==
    /\ reloadPc = "paused"
    /\ running
    /\ reloadPc' = "none"
    /\ reloaded' = FALSE
    /\ UNCHANGED <<eu, registry, rows, debt, limiters, genStarts, schedules,
                   running, cronRunning, cronEntries, scheduleEntries, jobs>>

\* The cron expressions come due: the running cron starts the job function
\* of every entry it holds, each in its own goroutine.
CronTick ==
    /\ cronRunning
    /\ cronEntries # <<>>
    /\ jobs = <<>>
    /\ jobs' = cronEntries
    /\ UNCHANGED <<eu, registry, rows, debt, limiters, genStarts, schedules,
                   running, cronRunning, cronEntries, scheduleEntries,
                   reloadPc, reloaded>>

\* A started job function runs executeSchedule on the schedule it was
\* registered with and launches its unit.
JobRun(u) ==
    /\ jobs # <<>>
    /\ Launched(u, "cron", "openai")
    /\ jobs' = Tail(jobs)
    /\ UNCHANGED <<registry, rows, debt, limiters, genStarts, schedules,
                   running, cronRunning, cronEntries, scheduleEntries,
                   reloadPc, reloaded>>

\* An operator enables or disables a schedule (CRUD on the store).
SetEnabled(s, b) ==
    /\ schedules[s].enabled # b
    /\ schedules' = [schedules EXCEPT ![s].enabled = b]
    /\ reloaded' = FALSE
    /\ UNCHANGED <<eu, registry, rows, debt, limiters, genStarts, running,
                   cronRunning, cronEntries, scheduleEntries, jobs,
                   reloadPc>>

\* ------------------------------------------------------------------------
\* The fan-out of one run over prompts and models: executeSchedule (a cron
\* job or ExecuteNow), ExecutePrompt, and the loop of runOnceMode.  The units
\* of a run are kept in fu, in launch order; what one unit does inside an
\* attempt is the Execution Unit above, of which only the outcome of each
\* attempt is kept here.

SeqToSet(s) == {s[i] : i \in 1..Len(s)}

\* db.GetPrompt / db.GetLLM found the row
PromptExists(p) == prompts[p].exists
LlmExists(m) == llms[m].exists

\* part_013:199-207  executeSchedule keeps a model that was found and is
\* enabled
LlmKept(m) == llms[m].exists /\ llms[m].enabled

\* ListPrompts(ctx, boolPtr(true)) / ListLLMs(ctx, boolPtr(true))
PromptListed(p) == prompts[p].exists /\ prompts[p].enabled
LlmListed(m) == llms[m].exists /\ llms[m].enabled

\* the *models.Prompt / *models.LLMConfig a read returns: the row as it is
\* at the time of the read
PromptRow(p) == [id |-> p, template |-> prompts[p].template]
LlmRow(m) == [id |-> m, name |-> llms[m].name]

PromptRows(ids) == [i \in 1..Len(ids) |-> PromptRow(ids[i])]
LlmRows(ids) == [i \in 1..Len(ids) |-> LlmRow(ids[i])]

\* the largest fan-out of the configurations above
MaxFan == Cardinality(PromptIds) * Cardinality(LlmIds)
\* the values the calls of rand.Float64() of one run return, by call:
\* all equal, or differing between neighbours
Draws == {d \in [1..MaxFan -> Samples] :
             \/ \A k \in 1..MaxFan : d[k] = d[1]
             \/ \A k \in 2..MaxFan : d[k] # d[k - 1]}

\* part_013:226-231, cli/run.go:170-174  the sentinel is replaced by a sample
CurrentTemperatureKept(t, sample) == t

CurrentTemperature(t, sample) ==
    IF t = RandomTemperature THEN sample ELSE t

NoDoc == [none |-> TRUE]

\* the goroutine (or the call, in runOnceMode) for the i-th prompt and one
\* model, about to make its first attempt
NewUnit(i, prompt, llm, temperature) ==
    [pi |-> i, prompt |-> prompt, llm |-> llm, temperature |-> temperature,
     pc |-> "run", attempt |-> 1, stored |-> FALSE, doc |-> NoDoc,
     atCreate |-> NoDoc]

\* part_013:217-241  for each prompt, for each model: one unit.  In
\* executeSchedule every unit draws its own sample (the draw is inside the
\* goroutine); in runOnceMode the sample is drawn once per prompt.
FanOut(ps, ls, t, draw, perPrompt) ==
    LET nl == Len(ls)
        n  == Len(ps) * nl
    IN  [k \in 1..n |->
            LET i == ((k - 1) \div nl) + 1
                j == ((k - 1) % nl) + 1
            IN  NewUnit(i, ps[i], ls[j],
                        CurrentTemperature(t, IF perPrompt THEN draw[i]
                                                           ELSE draw[k]))]

\* what the store holds for a prompt and a model at this moment (0: no row)
TemplateNow(p) == IF prompts[p].exists THEN prompts[p].template ELSE 0
NameNow(m) == IF llms[m].exists THEN llms[m].name ELSE 0

\* a unit that would read the prompt and the model again when it builds
\* the Response
UnitResponseReread(u) ==
    [PromptID |-> u.prompt.id, PromptText |-> TemplateNow(u.prompt.id),
     LLMID |-> u.llm.id, LLMName |-> NameNow(u.llm.id),
     Temperature |-> u.temperature]

\* part_013:357-370, 377-392, cli/run.go:238-251  the models.Response a unit
\* builds from the prompt and the model it was launched with
UnitResponse(u) ==
    [PromptID |-> u.prompt.id, PromptText |-> u.prompt.template,
     LLMID |-> u.llm.id, LLMName |-> u.llm.name,
     Temperature |-> u.temperature]

\* part_009:1369-1382  the document CreateResponse inserts
ResponseDoc(response) ==
    [prompt_id |-> response.PromptID, prompt_text |-> response.PromptText,
     llm_id |-> response.LLMID, llm_name |-> response.LLMName,
     temperature |-> response.Temperature]

\* the store as a run finds it when it reads the prompts and the models; a
\* record of the past kept with the run
StoreSeen ==
    [prompts |-> [p \in PromptIds |-> TemplateNow(p)],
     llms |-> [m \in LlmIds |-> NameNow(m)]]

\* wg.Wait() returns: every goroutine has run its deferred wg.Done()
AllTerminatedOrAsleep == \A k \in 1..Len(fu) : fu[k].pc \in {"done", "sleep"}

AllTerminated == \A k \in 1..Len(fu) : fu[k].pc = "done"

\* A cron job of the schedule comes due, or ExecuteNow(schedule.ID) is
\* called: executeSchedule reads the prompts and the models and starts one
\* goroutine per pair.  A cron job exists only for a schedule that Start
\* found enabled (part_013:79); ExecuteNow reads the row whatever its flag.
FireSchedule(kind, draw) ==
    LET ps == PromptRows(SelectSeq(schedule.promptIDs, PromptExists))
        ls == LlmRows(SelectSeq(schedule.llmIDs, LlmKept))
    IN  /\ alive
        /\ firing.pc = "idle"
        /\ kind = "cron" => schedule.enabled
        /\ firing' = [pc |-> "wait", kind |-> kind, prompts |-> ps,
                      llms |-> ls, lastRunWritten |-> FALSE,
                      seen |-> StoreSeen]
        /\ fu' = FanOut(ps, ls, schedule.temperature, draw, FALSE)
        /\ UNCHANGED <<prompts, llms, schedule, used, alive, panicked>>

\* Scheduler.ExecutePrompt(promptID, llmIDs)
ExecutePrompt(p, ids) ==
    LET ps == PromptRows(<<p>>)
        ls == LlmRows(SelectSeq(ids, LlmExists))
    IN  /\ alive
        /\ firing.pc = "idle"
        /\ PromptExists(p)
        /\ firing' = [pc |-> "wait", kind |-> "prompt", prompts |-> ps,
                      llms |-> ls, lastRunWritten |-> FALSE,
                      seen |-> StoreSeen]
        /\ fu' = FanOut(ps, ls, PromptTemperature, [k \in 1..MaxFan |-> 0],
                        FALSE)
        /\ UNCHANGED <<prompts, llms, schedule, used, alive, panicked>>

\* runOnceMode with the temperature t read from the terminal
RunOnce(t, draw) ==
    LET ps == PromptRows(SelectSeq(PromptOrder, PromptListed))
        ls == LlmRows(SelectSeq(LlmOrder, LlmListed))
    IN  /\ alive
        /\ firing.pc = "idle"
        /\ ps # <<>>
        /\ ls # <<>>
        /\ firing' = [pc |-> "wait", kind |-> "once", prompts |-> ps,
                      llms |-> ls, lastRunWritten |-> FALSE,
                      seen |-> StoreSeen]
        /\ fu' = FanOut(ps, ls, t, draw, TRUE)
        /\ UNCHANGED <<prompts, llms, schedule, used, alive, panicked>>

\* the k-th unit may take a step: in runOnceMode the units run one after
\* the other, in the scheduler they run side by side
UnitCanRun(k) ==
    /\ alive
    /\ k \in 1..Len(fu)
    /\ fu[k].pc = "run"
    /\ firing.kind = "once" => \A j \in 1..(k - 1) : fu[j].pc = "done"

\* An attempt of the k-th unit ends with CreateResponse returning nil: the
\* document is in the store and the unit returns.
UnitStore(k) ==
    /\ UnitCanRun(k)
    /\ fu' = [fu EXCEPT ![k].pc = "done",
                        ![k].stored = TRUE,
                        ![k].doc = ResponseDoc(UnitResponse(fu[k])),
                        ![k].atCreate =
                            [prompt_text |-> TemplateNow(fu[k].prompt.id),
                             llm_name |-> NameNow(fu[k].llm.id)]]
    /\ UNCHANGED <<prompts, llms, schedule, firing, used, alive, panicked>>

\* a goroutine that would return from its last failed attempt without
\* wg.Done()
AfterFailureLeaked(wait) == IF wait THEN "sleep" ELSE "failed"

\* part_013:300-310, 222  after a failed attempt the unit sleeps if attempts
\* remain; else executePromptWithRetry returns its error, the goroutine
\* logs it and ends, its deferred wg.Done() run
AfterFailure(wait) == IF wait THEN "sleep" ELSE "done"

\* An attempt of the k-th unit returns an error to the retry loop: the unit
\* sleeps if attempts remain, else it returns.
UnitFailed(k) ==
    /\ UnitCanRun(k)
    /\ fu' = [fu EXCEPT ![k].pc =
                 AfterFailure(IF firing.kind = "once"
                              THEN CliWaitBeforeRetry(fu[k].attempt)
                              ELSE WaitBeforeRetry(fu[k].attempt))]
    /\ UNCHANGED <<prompts, llms, schedule, firing, alive, panicked>>

\* the same, the failed attempts of a process being counted up to a bound
UnitFail(k) ==
    /\ used.failures < MaxFailures
    /\ used' = [used EXCEPT !.failures = @ + 1]
    /\ UnitFailed(k)

\* time.Sleep(retryDelayToUse) returns: the next attempt
UnitWake(k) ==
    /\ alive
    /\ k \in 1..Len(fu)
    /\ fu[k].pc = "sleep"
    /\ fu' = [fu EXCEPT ![k].pc = "run", ![k].attempt = @ + 1]
    /\ UNCHANGED <<prompts, llms, schedule, firing, used, alive, panicked>>

\* A panic in the goroutine of a unit of a cron job.  The goroutine is
\* started by executeSchedule with "go func" (part_013:221) and has no
\* recover: the Go runtime ends the process.
UnitPanic(k) ==
    /\ UnitCanRun(k)
    /\ firing.kind = "cron"
    /\ panicked = "none"
    /\ alive' = FALSE
    /\ panicked' = "unit"
    /\ UNCHANGED <<prompts, llms, schedule, firing, fu, used>>

\* A panic in executeSchedule itself, on the goroutine of the cron job:
\* cron.Recover (part_013:56) catches it and the job ends there.
JobPanic ==
    /\ alive
    /\ firing.pc = "wait"
    /\ firing.kind = "cron"
    /\ panicked = "none"
    /\ firing' = [firing EXCEPT !.pc = "done"]
    /\ panicked' = "job"
    /\ UNCHANGED <<prompts, llms, schedule, fu, used, alive>>

\* part_013:244-255  wg.Wait() returns, then executeSchedule writes
\* schedule.LastRun; ExecutePrompt and runOnceMode return without it
FinishFiring ==
    /\ alive
    /\ firing.pc = "wait"
    /\ AllTerminated
    /\ firing' = [firing EXCEPT !.pc = "done",
                     !.lastRunWritten = firing.kind \in {"cron", "now"}]
    /\ UNCHANGED <<prompts, llms, schedule, fu, used, alive, panicked>>

\* the run is over and its goroutines are gone: the next run may start
EndFiring ==
    /\ alive
    /\ firing.pc = "done"
    /\ AllTerminated
    /\ firing' = IdleFiring
    /\ fu' = <<>>
    /\ UNCHANGED <<prompts, llms, schedule, used, alive, panicked>>

\* UpdatePrompt with a new template, while a run is in progress
EditPrompt(p) ==
    /\ firing.pc = "wait"
    /\ ~used.edited
    /\ prompts[p].exists
    /\ prompts[p].template + 1 \in Versions
    /\ prompts' = [prompts EXCEPT ![p].template = @ + 1]
    /\ used' = [used EXCEPT !.edited = TRUE]
    /\ UNCHANGED <<llms, schedule, firing, fu, alive, panicked>>

\* DeletePrompt, while a run is in progress
DeletePrompt(p) ==
    /\ firing.pc = "wait"
    /\ ~used.edited
    /\ prompts[p].exists
    /\ prompts' = [prompts EXCEPT ![p].exists = FALSE]
    /\ used' = [used EXCEPT !.edited = TRUE]
    /\ UNCHANGED <<llms, schedule, firing, fu, alive, panicked>>

\* UpdateLLM with a new name, provider or model, while a run is in progress
EditLlm(m) ==
    /\ firing.pc = "wait"
    /\ ~used.edited
    /\ llms[m].exists
    /\ llms[m].name + 1 \in Versions
    /\ llms' = [llms EXCEPT ![m].name = @ + 1]
    /\ used' = [used EXCEPT !.edited = TRUE]
    /\ UNCHANGED <<prompts, schedule, firing, fu, alive, panicked>>

engineVars ==
    <<eu, registry, rows, debt, limiters, genStarts, schedules, running,
      cronRunning, cronEntries, scheduleEntries, jobs, reloadPc, reloaded>>

\* ------------------------------------------------------------------------
\* Keyword search: MongoDB.SearchKeyword over the Response collection, with
\* shared.CountOccurrences run one loop iteration at a time.  created_at is
\* the position of the document in the collection (time.Now() at the
\* insert).

\* response texts; the empty one is the text of a Response that records
\* a failed call
Texts ==
    {<<>>, <<"a">>, <<"a", "a", "A">>, <<"b", "a", "a">>, <<"A", "b", "a">>,
     <<"b", "b", "b">>, <<"a", "A", "a", "a">>, <<"B", "a", "b", "A">>}
\* keywords a caller passes: `gego stats keyword ""` passes the empty one
Keywords == {<<"a">>, <<"A", "a">>, <<"b", "A">>, <<>>}
\* the window bounds a caller passes: 0 is a nil *time.Time
TimeBounds == 0..MaxDocs

\* search.go:17-37  Find(ctx, query), the documents the cursor will
\* return: response_text matches {"$regex": regexp.QuoteMeta(keyword),
\* "$options": "i"}, that is, holds the keyword literally with letter case
\* ignored, and created_at is within {$gte: *startTime, $lte: *endTime},
\* each bound only when its pointer is not nil
Find(keyword, startTime, endTime) ==
    LET hit(d) == /\ Contains(ToLower(d.text), ToLower(keyword))
                  /\ startTime # 0 => d.at >= startTime
                  /\ endTime # 0 => d.at <= endTime
    IN  SelectSeq(docs, hit)

\* an index that moves on by one character after a match
AdvanceByOne(index, i, keywordLen) == index + i + 1

\* part_008:68  index += i + len(lowerKeyword)
Advance(index, i, keywordLen) == index + i + keywordLen

\* db.CreateResponse of a unit, as the search sees it: one more document
CreateResponse(text) ==
    /\ search.pc = "idle"
    /\ Len(docs) < MaxDocs
    /\ docs' = Append(docs, [text |-> text, at |-> Len(docs) + 1])
    /\ UNCHANGED search

\* search.go:15-52  SearchKeyword up to its loop: the query is built and
\* sent, the stats start empty
SearchKeyword(keyword, startTime, endTime) ==
    /\ search.pc = "idle"
    /\ search' = [IdleSearch EXCEPT !.pc = "cursor", !.keyword = keyword,
                     !.startTime = startTime, !.endTime = endTime,
                     !.cursor = Find(keyword, startTime, endTime)]
    /\ UNCHANGED docs

\* search.go:54-68, 91-94  cursor.Next: the next document goes to
\* CountOccurrences (part_008:57-60), or the stats are returned
CursorNext ==
    /\ search.pc = "cursor"
    /\ IF search.cursor = <<>>
       THEN search' = [search EXCEPT !.pc = "returned"]
       ELSE search' = [search EXCEPT
                          !.pc = "count",
                          !.cursor = Tail(search.cursor),
                          !.lower = ToLower(Head(search.cursor).text),
                          !.lowerKeyword = ToLower(search.keyword),
                          !.count = 0,
                          !.index = 0]
    /\ UNCHANGED docs

\* part_008:62-71, search.go:68-69  one iteration of the loop of
\* CountOccurrences; at its break the count is added to TotalMentions.
\* count is a Go int: count++ wraps at its width
CountStep ==
    LET rest == SubSeq(search.lower, search.index + 1, Len(search.lower))
        i    == Index(rest, search.lowerKeyword)
    IN  /\ search.pc = "count"
        /\ IF i = -1
           THEN search' = [search EXCEPT
                              !.pc = "cursor",
                              !.TotalMentions = @ + search.count]
           ELSE search' = [search EXCEPT
                              !.count = (search.count + 1) % (2 ^ CountBits),
                              !.index = Advance(search.index, i,
                                                Len(search.lowerKeyword))]
        /\ UNCHANGED docs

\* ------------------------------------------------------------------------
\* Model configurations, the provider registry and the configuration bag
\* of a Generate call.  One process: the operator's rows are in the llms
\* table, the process starts, connects to its stores and fills the
\* registry, then units call executePromptWithLLM.

\* secrets and endpoints an operator gives a model; "" is no base URL
ApiKeys == {"k1", "k2"}
BaseURLs == {"", "proxy"}
\* providers whose adapter holds a secret
KeyedProviders == {"openai", "google"}
\* the options mapping (LLMConfig.Config) an operator stores
OptionMaps == {EmptyMap, [max_tokens |-> "50"]}

\* sqlite.go:164-180  mapToJSON: the text written to the config column,
\* token by token
MapToJSON(m) ==
    LET RECURSIVE Body(_)
        Body(ks) ==
            IF ks = {} THEN <<>>
            ELSE LET k == CHOOSE x \in ks : TRUE
                 IN  <<k, ":", m[k]>> \o
                     (IF ks = {k} THEN <<>> ELSE <<",">> \o Body(ks \ {k}))
    IN  IF DOMAIN m = {} THEN <<"{}">>
        ELSE <<"{">> \o Body(DOMAIN m) \o <<"}">>

\* sqlite.go:183-191  jsonToMap
JsonToMap(jsonStr) ==
    IF jsonStr = <<>> \/ jsonStr = <<"{}">> THEN EmptyMap ELSE EmptyMap

\* sqlite.go:272-302  GetLLM: the row of the id, its config column parsed
GetLLM(id) ==
    LET row == llmTable[CHOOSE i \in 1..Len(llmTable) : llmTable[i].ID = id]
    IN  [ID |-> row.ID, Provider |-> row.Provider, APIKey |-> row.APIKey,
         BaseURL |-> row.BaseURL, Config |-> JsonToMap(row.config)]

\* sqlite.go:305-350  ListLLMs(ctx, nil): every row, ORDER BY created_at
\* DESC
ListLLMs ==
    [i \in 1..Len(llmTable) |-> GetLLM(llmTable[Len(llmTable) + 1 - i].ID)]

\* openai.go:25-37, google.go:25-37  New(apiKey, baseURL)
NewAdapter(apiKey, baseURL) ==
    [apiKey |-> apiKey,
     baseURL |-> IF baseURL = "" THEN "default" ELSE baseURL]

\* llm.Registry.Register: the adapter is put under its name
Register(reg, name, adapter) == MapPut(reg, name, adapter)

\* root.go:312-331  every listed model registers an adapter made from its
\* secret and base URL
RECURSIVE RegisterModels(_, _)
RegisterModels(list, reg) ==
    IF list = <<>> THEN reg
    ELSE RegisterModels(Tail(list),
             Register(reg, Head(list).Provider,
                      NewAdapter(Head(list).APIKey, Head(list).BaseURL)))

\* part_013:335-345  "Prepare config"
ConfigBag(llmConfig, temperature) ==
    LET fixed == [model |-> llmConfig.ID, temperature |-> temperature,
                  api_key |-> llmConfig.APIKey]
        base == IF llmConfig.BaseURL # ""
                THEN [k \in DOMAIN fixed \cup {"base_url"} |->
                         IF k = "base_url" THEN llmConfig.BaseURL
                         ELSE fixed[k]]
                ELSE fixed
    IN  [k \in DOMAIN base \cup DOMAIN llmConfig.Config |->
            IF k \in DOMAIN llmConfig.Config THEN llmConfig.Config[k]
            ELSE base[k]]

\* sqlite.go:247-269  CreateLLM, before the process starts.  Config is the
\* mapping as the operator gave it; the table holds its text.
CreateLLM(id, provider, apiKey, baseURL, options) ==
    /\ conn.result = "none"
    /\ \A i \in 1..Len(llmTable) : llmTable[i].ID # id
    /\ llmTable' = Append(llmTable,
                      [ID |-> id, Provider |-> provider, APIKey |-> apiKey,
                       BaseURL |-> baseURL, config |-> MapToJSON(options),
                       Config |-> options])
    /\ UNCHANGED <<adapters, calls, conn>>

\* how far a store's Connect gets: it returns nil, it fails before the
\* handle is kept (open, ping), or it fails after (createTables,
\* runMigrations, createIndexes)
ConnectOutcomes == {"ok", "fails early", "fails late"}

\* sqlite.go:31-78  SQLite.Connect: s.db is set at line 65, before the
\* tables and the migrations.  part_009:1132-1152  MongoDB.Connect:
\* m.client is set at line 1144, before the indexes.  The result is
\* whether the handle is kept and whether an error is returned.
StoreConnect(outcome) ==
    [kept |-> outcome # "fails early", err |-> outcome # "ok"]

\* migrate.go:114-124  HybridDB.Connect, called once at the start of the
\* process (root.go:248)
Connect(sqlOutcome, nosqlOutcome) ==
    LET sql == StoreConnect(sqlOutcome)
        nosql == StoreConnect(nosqlOutcome)
    IN  /\ conn.result = "none"
        /\ llmTable # <<>>
        /\ IF sql.err
           THEN conn' = [sql |-> sql.kept, nosql |-> FALSE,
                         result |-> "error"]
           ELSE IF nosql.err
           THEN conn' = [sql |-> sql.kept, nosql |-> nosql.kept,
                         result |-> "error"]
           ELSE conn' = [sql |-> sql.kept, nosql |-> nosql.kept,
                         result |-> "nil"]
        /\ UNCHANGED <<llmTable, adapters, calls>>

\* root.go:260-266, 306-334  the process starts: the placeholders without
\* secret, then initializeLLMProviders
InitializeLLMProviders ==
    LET placeholders == [p \in KeyedProviders |-> NewAdapter("", "")] IN
    /\ conn.result = "nil"
    /\ adapters = EmptyMap
    /\ adapters' = RegisterModels(ListLLMs, placeholders)
    /\ UNCHANGED <<llmTable, calls, conn>>

\* part_013:314-351, openai.go:85-91, google.go:97  one attempt of a unit
\* of the model up to the request: the adapter is looked up by the
\* provider name, the bag is built, and the adapter sends its own apiKey
\* to its own baseURL
ExecutePromptWithLLM(id) ==
    LET llmConfig == GetLLM(id)
        provider == adapters[llmConfig.Provider]
    IN  /\ adapters # EmptyMap
        /\ \E i \in 1..Len(llmTable) : llmTable[i].ID = id
        /\ calls' = calls \cup
              {[llm |-> id, config |-> ConfigBag(llmConfig, PromptTemperature),
                apiKey |-> provider.apiKey, baseURL |-> provider.baseURL]}
        /\ UNCHANGED <<llmTable, adapters, conn>>

\* ------------------------------------------------------------------------
\* The firings of one stored schedule and the row they write back.  A cron
\* job works on the *models.Schedule that Start listed and the job function
\* captured; cron starts every due job in a goroutine of its own, whether
\* or not the previous one has returned (the chain of part_013:55-57 holds
\* only cron.Recover).  ExecuteNow works on the row it reads itself.
\* name, prompt_ids, llm_ids, cron_expr and temperature are one field, cfg,
\* given by a version number.

JobIds == {1, 2}

\* the *models.Schedule the job with this id works on
ScheduleOf(j) == IF job[j].kind = "cron" THEN mem ELSE job[j].own

\* part_013:79-99, 153-160  Start lists the enabled schedules and
\* registerSchedule captures the listed struct in the job function
RegisterSchedule ==
    /\ mem.none
    /\ schedRow.enabled
    /\ mem' = [schedRow EXCEPT !.none = FALSE]
    /\ UNCHANGED <<schedRow, job>>

\* the cron entry comes due and its job function starts executeSchedule
\* (part_013:155-160), or ExecuteNow reads the row and starts it
\* (part_013:398-405); the units are launched
Fire(j, kind) ==
    /\ job[j].pc = "idle"
    /\ kind = "cron" => ~mem.none
    /\ job' = [job EXCEPT ![j] = [pc |-> "wait", kind |-> kind,
                                  own |-> [schedRow EXCEPT !.none = FALSE]]]
    /\ UNCHANGED <<schedRow, mem>>

\* part_013:244  wg.Wait() returns
UnitsDone(j) ==
    /\ job[j].pc = "wait"
    /\ job' = [job EXCEPT ![j].pc = "stamp"]
    /\ UNCHANGED <<schedRow, mem>>

\* part_013:248-249  schedule.LastRun = &now, a plain store to the struct;
\* the time is given by the job's id
Stamp(j) ==
    /\ job[j].pc = "stamp"
    /\ IF job[j].kind = "cron"
       THEN /\ mem' = [mem EXCEPT !.lastRun = j]
            /\ job' = [job EXCEPT ![j].pc = "update"]
       ELSE /\ mem' = mem
            /\ job' = [job EXCEPT ![j].pc = "update", ![j].own.lastRun = j]
    /\ UNCHANGED schedRow

\* part_013:250, sqlite.go:539-574  UpdateSchedule(ctx, schedule): every
\* column of the row is set from the struct as it is read now
UpdateSchedule(j) ==
    /\ job[j].pc = "update"
    /\ schedRow' = [ScheduleOf(j) EXCEPT !.none = FALSE]
    /\ job' = [job EXCEPT ![j].pc = "done"]
    /\ UNCHANGED mem

\* api/schedule.go:223-300  PUT /schedules/:id by an operator
OperatorUpdate(cfg, enabled) ==
    /\ schedRow.cfg # cfg \/ schedRow.enabled # enabled
    /\ schedRow' = [schedRow EXCEPT !.cfg = cfg, !.enabled = enabled]
    /\ UNCHANGED <<mem, job>>

\* ------------------------------------------------------------------------
\* Scheduler.getRateLimiter, one statement at a time, called by the
\* goroutines of several units at once.  rateMu is a sync.RWMutex: any
\* number of readers, or one writer.  A rate.Limiter is given by the
\* position of its creation in `created`.

Callers == {"g1", "g2", "g3"}

IdleCall == [pc |-> "idle", provider |-> "openai", limiter |-> 0,
             missed |-> FALSE]

\* executePromptWithLLM calls s.getRateLimiter(llmConfig.Provider)
GetRateLimiter(c, provider) ==
    /\ gl[c].pc = "idle"
    /\ gl' = [gl EXCEPT ![c] = [IdleCall EXCEPT !.pc = "rlock",
                                               !.provider = provider]]
    /\ UNCHANGED <<rateLimiters, rateMu, created>>

\* part_013:449  s.rateMu.RLock()
RLock(c) ==
    /\ gl[c].pc = "rlock"
    /\ rateMu.writer = "none"
    /\ rateMu' = [rateMu EXCEPT !.readers = @ \cup {c}]
    /\ gl' = [gl EXCEPT ![c].pc = "read"]
    /\ UNCHANGED <<rateLimiters, created>>

\* part_013:450-455  limiter, exists := s.rateLimiters[provider];
\* s.rateMu.RUnlock(); if exists { return limiter }
ReadUnlock(c) ==
    /\ gl[c].pc = "read"
    /\ rateMu' = [rateMu EXCEPT !.readers = @ \ {c}]
    /\ gl' = [gl EXCEPT ![c] =
                 IF gl[c].provider \in DOMAIN rateLimiters
                 THEN [@ EXCEPT !.pc = "returned",
                                !.limiter = rateLimiters[gl[c].provider]]
                 ELSE [@ EXCEPT !.pc = "lock", !.missed = TRUE]]
    /\ UNCHANGED <<rateLimiters, created>>

\* part_013:458  s.rateMu.Lock()
Lock(c) ==
    /\ gl[c].pc = "lock"
    /\ rateMu.writer = "none"
    /\ rateMu.readers = {}
    /\ rateMu' = [rateMu EXCEPT !.writer = c]
    /\ gl' = [gl EXCEPT ![c].pc = "locked"]
    /\ UNCHANGED <<rateLimiters, created>>

\* a creation that would trust the first lookup
ExistsUnchecked(map, provider) == FALSE

\* part_013:462  the second lookup, under the write lock
Exists(map, provider) == provider \in DOMAIN map

\* part_013:461-469  the double-check, rate.NewLimiter and the store to the
\* map, and the deferred s.rateMu.Unlock()
CheckCreate(c) ==
    LET provider == gl[c].provider IN
    /\ gl[c].pc = "locked"
    /\ rateMu' = [rateMu EXCEPT !.writer = "none"]
    /\ IF Exists(rateLimiters, provider)
       THEN /\ gl' = [gl EXCEPT ![c].pc = "returned",
                                ![c].limiter = rateLimiters[provider]]
            /\ UNCHANGED <<rateLimiters, created>>
       ELSE /\ created' = Append(created, provider)
            /\ rateLimiters' = MapPut(rateLimiters, provider, Len(created) + 1)
            /\ gl' = [gl EXCEPT ![c].pc = "returned",
                                ![c].limiter = Len(created) + 1]

\* ------------------------------------------------------------------------
\* Spec: one Execution Unit from launch to its return, with every adapter,
\* limiter, store and cancellation outcome.

Next ==
    \/ \E o \in Origins, p \in Providers : Launch("u1", o, p) /\ UNCHANGED restVars
    \/ BeginAttempt("u1") /\ UNCHANGED restVars
    \/ LimiterReturn("u1") /\ UNCHANGED restVars
    \/ \E k \in GenKinds, m \in FailMsgs : Generate("u1", k, m) /\ UNCHANGED restVars
    \/ \E ok \in BOOLEAN, m \in FailMsgs : Insert("u1", ok, m) /\ UNCHANGED restVars
    \/ Sleep("u1") /\ UNCHANGED restVars
    \/ Cancel("u1") /\ UNCHANGED restVars
    \/ Tick /\ UNCHANGED restVars

Spec == Init /\ [][Next]_vars

\* ------------------------------------------------------------------------
\* SpecRate: one slot that runs unit after unit, from cron firings and from
\* the CLI's run-once loop, against the clock and the limiter of "openai".

NextRate ==
    \/ \E o \in {"cron", "once"} : Launch("u1", o, "openai") /\ UNCHANGED restVars
    \/ BeginAttempt("u1") /\ UNCHANGED restVars
    \/ LimiterReturn("u1") /\ UNCHANGED restVars
    \/ \E k \in {"ok", "terr"} :
           /\ Len(genStarts["openai"]) < MaxStarts
           /\ GenerateTimed("u1", k, "boom")
           /\ UNCHANGED restVars
    \/ \E ok \in BOOLEAN : Insert("u1", ok, "boom") /\ UNCHANGED restVars
    \/ Sleep("u1") /\ UNCHANGED restVars
    \/ Retire("u1") /\ UNCHANGED restVars
    \/ Tick /\ UNCHANGED restVars

SpecRate == Init /\ [][NextRate]_vars

\* ------------------------------------------------------------------------
\* SpecSup: the supervisor over a store of two schedules, with the units
\* its firings launch.

InitSup ==
    /\ InitEngine
    /\ InitOneConfig
    /\ InitTools
    /\ schedules \in [SchedIds -> [enabled : BOOLEAN]]

NextSup ==
    \/ Start /\ UNCHANGED restVars
    \/ Stop /\ UNCHANGED restVars
    \/ ReloadStop /\ UNCHANGED restVars
    \/ ReloadStart /\ UNCHANGED restVars
    \/ ReloadStartFails /\ UNCHANGED restVars
    \/ CronTick /\ UNCHANGED restVars
    \/ JobRun("u1") /\ UNCHANGED restVars
    \/ \E s \in SchedIds, b \in BOOLEAN : SetEnabled(s, b) /\ UNCHANGED restVars
    \/ BeginAttempt("u1") /\ UNCHANGED restVars
    \/ LimiterReturn("u1") /\ UNCHANGED restVars
    \/ \E k \in {"ok", "terr"} : Generate("u1", k, "boom") /\ UNCHANGED restVars
    \/ \E ok \in BOOLEAN : Insert("u1", ok, "boom") /\ UNCHANGED restVars
    \/ Sleep("u1") /\ UNCHANGED restVars
    \/ Retire("u1") /\ UNCHANGED restVars
    \/ Tick /\ UNCHANGED restVars

SpecSup == InitSup /\ [][NextSup]_vars

\* ------------------------------------------------------------------------
\* SpecFire: runs over every stored configuration of two prompts, two
\* models and one schedule.

InitFire ==
    /\ InitEngine
    /\ InitStore
    /\ InitTools
    /\ schedules = [s \in SchedIds |-> [enabled |-> TRUE]]
    /\ prompts \in [PromptIds ->
                       [exists : {TRUE}, enabled : BOOLEAN, template : {1}]]
    /\ llms \in [LlmIds -> [exists : {TRUE}, enabled : BOOLEAN, name : {1}]]
    /\ prompts["p2"].enabled
    /\ llms["m2"].enabled
    /\ schedule \in [enabled : BOOLEAN, promptIDs : PromptIdLists,
                     llmIDs : LlmIdLists, temperature : Temperatures]

NextFire ==
    \/ \E kind \in {"cron", "now"}, draw \in Draws :
           FireSchedule(kind, draw) /\ UNCHANGED <<engineVars, toolVars>>
    \/ \E p \in PromptIds, ids \in LlmIdLists :
           ExecutePrompt(p, ids) /\ UNCHANGED <<engineVars, toolVars>>
    \/ \E t \in Temperatures, draw \in Draws :
           RunOnce(t, draw) /\ UNCHANGED <<engineVars, toolVars>>
    \/ \E k \in 1..MaxFan : UnitStore(k) /\ UNCHANGED <<engineVars, toolVars>>
    \/ \E k \in 1..MaxFan : UnitFail(k) /\ UNCHANGED <<engineVars, toolVars>>
    \/ \E k \in 1..MaxFan : UnitWake(k) /\ UNCHANGED <<engineVars, toolVars>>
    \/ \E k \in 1..MaxFan : UnitPanic(k) /\ UNCHANGED <<engineVars, toolVars>>
    \/ JobPanic /\ UNCHANGED <<engineVars, toolVars>>
    \/ FinishFiring /\ UNCHANGED <<engineVars, toolVars>>
    \/ EndFiring /\ UNCHANGED <<engineVars, toolVars>>
    \/ EditPrompt("p1") /\ UNCHANGED <<engineVars, toolVars>>
    \/ DeletePrompt("p1") /\ UNCHANGED <<engineVars, toolVars>>
    \/ EditLlm("m1") /\ UNCHANGED <<engineVars, toolVars>>

SpecFire == InitFire /\ [][NextFire]_vars

\* ------------------------------------------------------------------------
\* SpecFireLive: the firings of a schedule over one, two or four pairs,
\* every adapter call, limiter wait and store call returning: an attempt in
\* progress ends, with a stored Response or with an error, a sleep ends,
\* and wg.Wait() returns once the counter is zero.  Any attempt may fail.

InitFireLive ==
    /\ InitFire
    /\ \A p \in PromptIds : prompts[p].enabled
    /\ \A m \in LlmIds : llms[m].enabled
    /\ schedule.enabled
    /\ schedule.temperature = 0

NextFireLive ==
    \/ \E kind \in {"cron", "now"}, draw \in Draws :
           FireSchedule(kind, draw) /\ UNCHANGED <<engineVars, toolVars>>
    \/ \E k \in 1..MaxFan : UnitStore(k) /\ UNCHANGED <<engineVars, toolVars>>
    \/ \E k \in 1..MaxFan :
           UnitFailed(k) /\ UNCHANGED <<used, engineVars, toolVars>>
    \/ \E k \in 1..MaxFan : UnitWake(k) /\ UNCHANGED <<engineVars, toolVars>>
    \/ FinishFiring /\ UNCHANGED <<engineVars, toolVars>>
    \/ EndFiring /\ UNCHANGED <<engineVars, toolVars>>

SpecFireLive ==
    /\ InitFireLive
    /\ [][NextFireLive]_vars
    /\ \A k \in 1..MaxFan :
           WF_vars((UnitStore(k) \/ (UnitFailed(k) /\ UNCHANGED used)
                                 \/ UnitWake(k))
                   /\ UNCHANGED <<engineVars, toolVars>>)
    /\ WF_vars(FinishFiring /\ UNCHANGED <<engineVars, toolVars>>)

\* ------------------------------------------------------------------------
\* SpecSearch: keyword searches over every Response collection of MaxDocs
\* documents.  SpecSearchLive is the same with the search's own steps
\* taken whenever they can be: the call runs on, nothing suspends it.

NextSearch ==
    \/ \E text \in Texts :
           CreateResponse(text) /\ UNCHANGED <<engineVars, fireVars, bagVars, jobVars, limVars>>
    \/ \E k \in Keywords, st \in TimeBounds, en \in TimeBounds :
           SearchKeyword(k, st, en) /\ UNCHANGED <<engineVars, fireVars, bagVars, jobVars, limVars>>
    \/ CursorNext /\ UNCHANGED <<engineVars, fireVars, bagVars, jobVars, limVars>>
    \/ CountStep /\ UNCHANGED <<engineVars, fireVars, bagVars, jobVars, limVars>>

SpecSearch == Init /\ [][NextSearch]_vars

SpecSearchLive ==
    /\ Init
    /\ [][NextSearch]_vars
    /\ WF_vars((CursorNext \/ CountStep) /\ UNCHANGED <<engineVars, fireVars, bagVars, jobVars, limVars>>)

\* ------------------------------------------------------------------------
\* SpecBag: every llms table of up to two models, a process start with
\* every outcome of the connection to the two stores, and the Generate
\* calls of the models' units.

NextBag ==
    \/ \E id \in LlmIds, p \in KeyedProviders, key \in ApiKeys,
          url \in BaseURLs, options \in OptionMaps :
           /\ CreateLLM(id, p, key, url, options)
           /\ UNCHANGED <<engineVars, fireVars, searchVars, jobVars, limVars>>
    \/ \E sqlOutcome \in ConnectOutcomes, nosqlOutcome \in ConnectOutcomes :
           /\ Connect(sqlOutcome, nosqlOutcome)
           /\ UNCHANGED <<engineVars, fireVars, searchVars, jobVars, limVars>>
    \/ InitializeLLMProviders
           /\ UNCHANGED <<engineVars, fireVars, searchVars, jobVars, limVars>>
    \/ \E id \in LlmIds :
           /\ ExecutePromptWithLLM(id)
           /\ UNCHANGED <<engineVars, fireVars, searchVars, jobVars, limVars>>

SpecBag == Init /\ [][NextBag]_vars

\* ------------------------------------------------------------------------
\* SpecJobs: two firings of one schedule, from the cron or from ExecuteNow,
\* side by side with an operator who edits the schedule.

NextJobs ==
    \/ RegisterSchedule /\ UNCHANGED <<engineVars, fireVars, searchVars, bagVars, limVars>>
    \/ \E j \in JobIds, kind \in {"cron", "now"} :
           Fire(j, kind) /\ UNCHANGED <<engineVars, fireVars, searchVars, bagVars, limVars>>
    \/ \E j \in JobIds :
           UnitsDone(j) /\ UNCHANGED <<engineVars, fireVars, searchVars, bagVars, limVars>>
    \/ \E j \in JobIds :
           Stamp(j) /\ UNCHANGED <<engineVars, fireVars, searchVars, bagVars, limVars>>
    \/ \E j \in JobIds :
           UpdateSchedule(j) /\ UNCHANGED <<engineVars, fireVars, searchVars, bagVars, limVars>>
    \/ \E cfg \in Versions, enabled \in BOOLEAN :
           /\ OperatorUpdate(cfg, enabled)
           /\ UNCHANGED <<engineVars, fireVars, searchVars, bagVars, limVars>>

SpecJobs == Init /\ [][NextJobs]_vars

\* ------------------------------------------------------------------------
\* SpecLim: the units of a process ask for the rate limiter of their
\* provider, in any interleaving of their statements.

NextLim ==
    \/ \E c \in Callers, provider \in Providers :
           /\ GetRateLimiter(c, provider)
           /\ UNCHANGED <<engineVars, fireVars, searchVars, bagVars, jobVars>>
    \/ \E c \in Callers :
           RLock(c) /\ UNCHANGED <<engineVars, fireVars, searchVars, bagVars, jobVars>>
    \/ \E c \in Callers :
           ReadUnlock(c) /\ UNCHANGED <<engineVars, fireVars, searchVars, bagVars, jobVars>>
    \/ \E c \in Callers :
           Lock(c) /\ UNCHANGED <<engineVars, fireVars, searchVars, bagVars, jobVars>>
    \/ \E c \in Callers :
           CheckCreate(c) /\ UNCHANGED <<engineVars, fireVars, searchVars, bagVars, jobVars>>

SpecLim == Init /\ [][NextLim]_vars

\* ------------------------------------------------------------------------
\* Properties of one Execution Unit (checked under Spec)

Last(s) == s[Len(s)]

\* C1: every Execution Unit that reached a terminal state (it returned nil,
\* or it returned an error after its attempts) and was not cancelled before
\* its first adapter call has exactly one Response row that references it.
C1_ExactlyOneResponse ==
    \A u \in Units :
        (Terminal(eu[u]) /\ ~eu[u].earlyCancel) => Len(rows[u]) = 1

\* C2: a transport error of adapter.generate goes to the retry policy: after
\* fewer than 3 attempts the unit is not finished (it waits and calls
\* generate again), and a unit whose calls went error, error, result ends
\* with one Response that holds the third call's text and no error.
C2_TransportErrorRetried ==
    \A u \in Units :
        LET r == eu[u] IN
        (RegistryGet(r.prov) /\ ~r.cancelled /\ r.insFails = 0) =>
            /\ r.hist \in {<<"terr">>, <<"terr", "terr">>} => ~Terminal(r)
            /\ (Terminal(r) /\ r.hist = <<"terr", "terr", "ok">>) =>
                   rows[u] = <<[text |-> TextOf(3), error |-> <<>>]>>

\* C3: a generate call that returned a result with a non-empty error string
\* is a failed attempt: the unit does not return success on it, and while
\* attempts remain the unit goes on to another attempt.
C3_ResultErrorIsFailure ==
    \A u \in Units :
        LET r == eu[u] IN
        (r.hist # <<>> /\ Last(r.hist) = "rerr" /\ ~r.cancelled) =>
            /\ r.pc # "done"
            /\ Len(r.hist) < 3 => ~Terminal(r)

\* C4: with no adapter registered for the model's provider the unit writes
\* one Response whose error names the provider, and calls no adapter.
C4_MissingProviderResponse ==
    \A u \in Units :
        LET r == eu[u] IN
        (Terminal(r) /\ ~RegistryGet(r.prov)) =>
            /\ r.hist = <<>>
            /\ Len(rows[u]) = 1
            /\ Contains(Flat(rows[u][1].error), Chars(r.prov))

\* C5: once an insert of a Response has failed, the same unit makes no
\* further adapter.generate call and no further insert.
C5_InsertNotRetried ==
    [][\A u \in Units :
          (eu[u].insFails > 0 /\ eu'[u].insFails > 0) =>
              /\ Len(eu'[u].hist) = Len(eu[u].hist)
              /\ eu'[u].inserts = eu[u].inserts]_vars

\* C6: one Execution Unit calls adapter.generate at most 3 times.
C6_GenerateAtMostThree ==
    \A u \in Units : GenCalls(u) <= 3

\* C6 witness: a unit of the scheduler that did call generate three times
\* and returned with its attempts used up.
C6_Witness ==
    /\ GenCalls("u1") = 3
    /\ eu["u1"].origin = "cron"
    /\ eu["u1"].pc = "failed"

\* the classification the specification asks for: case-insensitive
IsRateLimitClass(msg) == IsRateLimitError(ToLower(Flat(msg)))

\* C7: the wait after a failed attempt is at least 120 seconds when the
\* failure message contains "429", "quota" or "rate limit" in any letter
\* case, and at least 30 seconds otherwise.
C7_BackoffClassified ==
    \A u \in Units :
        LET r == eu[u] IN
        (r.pc = "sleep" /\ r.timer = r.delay) =>
            r.delay >= (IF IsRateLimitClass(r.lastErr) THEN 120 ELSE 30)

\* ------------------------------------------------------------------------
\* Properties of the limiter (checked under SpecRate)

\* C8: for every provider at most 6 adapter.generate calls start within any
\* 60 seconds, whoever makes them: units of firings, their retries, and
\* units of ad-hoc runs.  genStarts[p] holds the calls whose start is less
\* than 60 seconds old.
C8_RateCeiling ==
    \A p \in Providers : Len(genStarts[p]) <= 6

\* ------------------------------------------------------------------------
\* Properties of the supervisor (checked under SpecSup)

\* C9: a unit of a firing that was in flight when Stop was called starts no
\* further adapter.generate call.
C9_StopCancelsInFlight ==
    [][\A u \in Units :
          (eu[u].stopSeen /\ eu'[u].stopSeen) =>
              Len(eu'[u].hist) = Len(eu[u].hist)]_vars

\* C10: when Reload has returned, every schedule that is enabled in the
\* store has exactly one cron entry and every other schedule has none (a
\* tick starts one job per entry), whatever Start, Stop and Reload calls
\* came before.
C10_ReloadIsRestart ==
    reloaded =>
        \A s \in SchedIds : EntryCount(s) = (IF IsEnabled(s) THEN 1 ELSE 0)

\* ------------------------------------------------------------------------
\* Properties of the fan-out (checked under SpecFire)

\* C11: a schedule whose enabled flag is false in the store is never fired:
\* no run of executeSchedule, from a cron job or from ExecuteNow, is in
\* progress or finished for a disabled schedule.
C11_DisabledNeverFired ==
    (firing.pc # "idle" /\ firing.kind \in {"cron", "now"}) =>
        schedule.enabled

\* C12: no Execution Unit is launched for a model whose enabled flag is
\* false, in a firing of a schedule or in ExecutePrompt.
C12_DisabledModelNeverLaunched ==
    \A k \in 1..Len(fu) : llms[fu[k].llm.id].enabled

\* C13: once a firing of an enabled schedule has launched its units, their
\* number is |P| * |M|, P the set of the schedule's enabled prompts and M the set of
\* its enabled models (the store as the firing found it).
C13_FanOutCount ==
    (firing.pc \in {"wait", "done"} /\ firing.kind \in {"cron", "now"}
        /\ schedule.enabled /\ ~used.edited) =>
        Len(fu) = Cardinality({p \in SeqToSet(schedule.promptIDs) :
                                  PromptListed(p)})
                  * Cardinality({m \in SeqToSet(schedule.llmIDs) :
                                    LlmListed(m)})

\* C14: in one run (of an enabled schedule, or ad hoc) the units that pair
\* the same prompt with different models carry the same temperature (with
\* the sentinel: the one sample drawn for that prompt), and a stored
\* Response carries the temperature of its unit.
C14_OneSamplePerPrompt ==
    (firing.kind \in {"cron", "now"} => schedule.enabled) =>
        \A j, k \in 1..Len(fu) :
            /\ (fu[j].pi = fu[k].pi /\ fu[j].llm.id # fu[k].llm.id) =>
                   fu[j].temperature = fu[k].temperature
            /\ fu[k].stored => fu[k].doc.temperature = fu[k].temperature

\* C15: every stored Response has a temperature between 0.0 and 1.0 (0 and
\* 10 tenths); the sentinel is never stored.
C15_TemperatureInRange ==
    \A k \in 1..Len(fu) :
        fu[k].stored =>
            /\ 0 <= fu[k].doc.temperature
            /\ fu[k].doc.temperature <= 10
            /\ fu[k].doc.temperature # RandomTemperature

\* C15 witness: a Response stored by a firing of a schedule that carries the
\* sentinel.
C15_Witness ==
    /\ firing.kind = "cron"
    /\ schedule.temperature = RandomTemperature
    /\ \E k \in 1..Len(fu) : fu[k].stored /\ fu[k].doc.temperature \in Samples

\* ------------------------------------------------------------------------
\* Properties of the stored rows (checked under Spec)

\* C16: every stored Response has a non-empty response text or a non-empty
\* error string.
C16_TextOrError ==
    \A u \in Units :
        \A i \in 1..Len(rows[u]) :
            rows[u][i].text # "" \/ rows[u][i].error # <<>>

\* ------------------------------------------------------------------------
\* Properties of the fan-out, continued (checked under SpecFire)

\* C17: when schedule.last_run has been written by a firing, every unit of
\* that firing has returned; none is running or waiting between attempts.
C17_LastRunAfterUnits ==
    firing.lastRunWritten =>
        \A k \in 1..Len(fu) : fu[k].pc = "done"

\* C17 witness: last_run written by a firing of two units or more, one of
\* which had waited between two attempts.
C17_Witness ==
    /\ firing.lastRunWritten
    /\ Len(fu) >= 2
    /\ \E k \in 1..Len(fu) : fu[k].attempt > 1

\* C18: a panic raised inside a cron job, in executeSchedule itself or in a
\* unit the firing launched, leaves the process of the supervisor running.
C18_PanicIsolated ==
    panicked # "none" => alive

\* C19 (as stated): the prompt text, and the model name, of every stored
\* Response are those the store held for its prompt id and its model id
\* at the time created_at was assigned, that is when CreateResponse ran.
C19_SnapshotAtCreation ==
    \A k \in 1..Len(fu) :
        fu[k].stored =>
            /\ fu[k].doc.prompt_text = fu[k].atCreate.prompt_text
            /\ fu[k].doc.llm_name = fu[k].atCreate.llm_name

\* C19 (amended): the prompt text, and the model name, of every stored
\* Response are those the store held for its prompt id and its model id
\* when the run that made it read its prompts and models, and they stay so
\* whatever is edited or deleted afterwards.
C19_SnapshotAtRead ==
    \A k \in 1..Len(fu) :
        fu[k].stored =>
            /\ fu[k].doc.prompt_text = firing.seen.prompts[fu[k].doc.prompt_id]
            /\ fu[k].doc.llm_name = firing.seen.llms[fu[k].doc.llm_id]

\* C19 witness: a stored Response whose prompt was edited or deleted after
\* it was stored, and which still holds the earlier template.
C19_Witness ==
    \E k \in 1..Len(fu) :
        /\ fu[k].stored
        /\ used.edited
        /\ fu[k].doc.prompt_text = fu[k].atCreate.prompt_text
        /\ fu[k].doc.prompt_text # TemplateNow(fu[k].doc.prompt_id)

\* C20: within one firing of an enabled schedule no (prompt, model) pair is
\* launched more than once.
C20_PairAtMostOnce ==
    (firing.kind \in {"cron", "now"} /\ schedule.enabled) =>
        \A j, k \in 1..Len(fu) :
            (fu[j].prompt.id = fu[k].prompt.id /\ fu[j].llm.id = fu[k].llm.id)
                => j = k

\* ------------------------------------------------------------------------
\* Properties of the keyword search (checked under SpecSearch)

\* the occurrences the specification counts in one text: of all places
\* where the keyword stands, letter case ignored, those picked from left to
\* right that do not overlap a place picked before
Occurrences(text, keyword) ==
    LET t == ToLower(text)
        k == ToLower(keyword)
        n == Len(k)
        places == {i \in 1..(Len(t) - n + 1) : SubSeq(t, i, i + n - 1) = k}
        picked == CHOOSE S \in SUBSET places :
                      \A i \in places :
                          (i \in S) <=> ~(\E j \in S : j < i /\ i < j + n)
    IN  Cardinality(picked)

\* the sum over the responses of the inclusive window that hold the keyword
RECURSIVE MentionsIn(_, _, _, _)
MentionsIn(ds, keyword, startTime, endTime) ==
    IF ds = <<>> THEN 0
    ELSE LET d == Head(ds)
             inWindow == /\ (startTime = 0 \/ startTime <= d.at)
                         /\ (endTime = 0 \/ d.at <= endTime)
             holds == \E i \in 1..Len(d.text) :
                          /\ i + Len(keyword) - 1 <= Len(d.text)
                          /\ \A j \in 1..Len(keyword) :
                                 ToLower(<<d.text[i + j - 1]>>) =
                                     ToLower(<<keyword[j]>>)
         IN  (IF inWindow /\ holds THEN Occurrences(d.text, keyword) ELSE 0)
             + MentionsIn(Tail(ds), keyword, startTime, endTime)

\* C21: a keyword search that returns reports total_mentions equal to the
\* sum, over the responses created inside the inclusive window whose text
\* holds the keyword in any letter case, of the non-overlapping
\* occurrences of the keyword counted from left to right.
C21_TotalMentions ==
    search.pc = "returned" =>
        search.TotalMentions =
            MentionsIn(docs, search.keyword, search.startTime, search.endTime)

\* a search for "Aa" from time 2 on has returned 2: the response at time 1
\* holds the keyword and is outside the window, the one at time 2 is
\* "aAaa", where three places overlap
C21_Witness ==
    /\ search.pc = "returned"
    /\ search.keyword = <<"A", "a">>
    /\ search.startTime = 2
    /\ Len(docs) = 2
    /\ docs[1].text = <<"b", "a", "a">>
    /\ docs[2].text = <<"a", "A", "a", "a">>
    /\ search.TotalMentions = 2

\* C29: every call of CountOccurrences comes to its end, for every text
\* and every keyword, the empty keyword included, so that the search
\* returns.
C29_CountTerminates == (search.pc = "count") ~> (search.pc = "returned")

\* ------------------------------------------------------------------------
\* Properties of the configuration bag and of the adapters (checked under
\* SpecBag)

\* the row the operator stored for a model
StoredModel(id) ==
    llmTable[CHOOSE i \in 1..Len(llmTable) : llmTable[i].ID = id]

\* C22: the configuration bag of every Generate call made for a model
\* holds every key/value pair of the options mapping the operator stored
\* on that model.
C22_BagHoldsOptions ==
    \A c \in calls :
        \A k \in DOMAIN StoredModel(c.llm).Config :
            /\ k \in DOMAIN c.config
            /\ c.config[k] = StoredModel(c.llm).Config[k]

\* C28: every Generate call made for a model carries that model's own
\* stored secret and goes to that model's own endpoint, also when another
\* model has the same provider name and another secret.
C28_OwnSecretAndEndpoint ==
    \A c \in calls :
        /\ c.apiKey = StoredModel(c.llm).APIKey
        /\ c.baseURL = (IF StoredModel(c.llm).BaseURL = "" THEN "default"
                        ELSE StoredModel(c.llm).BaseURL)

\* C23: when connect on the persistence facade returns an error, neither
\* the configuration store nor the document store is left connected.
C23_ConnectAllOrNothing ==
    conn.result = "error" => ~conn.sql /\ ~conn.nosql

\* ------------------------------------------------------------------------
\* Properties of the firings of one schedule (checked under SpecJobs)

\* C24: completing a firing changes only last_run on the stored schedule:
\* the step in which a firing writes the schedule back leaves the
\* configuration (name, cron expression, prompt ids, model ids, temperature)
\* and the enabled flag of the row as the store held them just before, also
\* when an operator wrote them after Start or while the firing ran.
C24_OnlyLastRunChanges ==
    [][(\E j \in JobIds : job[j].pc = "update" /\ job'[j].pc = "done")
         => /\ schedRow'.cfg = schedRow.cfg
            /\ schedRow'.enabled = schedRow.enabled]_vars

\* C26: two overlapping firings of the same schedule share no in-memory
\* state that one of them writes: never is one firing about to store to a
\* schedule struct (schedule.LastRun = &now) while another firing is about
\* to store to or to read the same struct, nothing ordering the two.
C26_NoUnsynchronisedSharing ==
    \A i, j \in JobIds :
        (/\ i # j
         /\ job[i].kind = "cron" /\ job[j].kind = "cron"
         /\ job[i].pc = "stamp")
        => job[j].pc \notin {"stamp", "update"}

\* ------------------------------------------------------------------------
\* Mutual exclusion of start, stop and reload (checked under SpecSup)

\* C25: start, stop and reload are mutually exclusive: between the stop
\* step and the start step of a reload no start or stop of another caller
\* takes effect, so the supervisor stays as the stop step left it.
C25_ReloadExcludesStartStop ==
    [][(reloadPc = "paused" /\ reloadPc' = "paused")
         => UNCHANGED <<running, cronRunning, cronEntries, scheduleEntries>>]_vars

\* ------------------------------------------------------------------------
\* Completion of a firing (checked under SpecFireLive)

\* C27: if every adapter call, limiter wait and store call returns, every
\* firing eventually completes: all of its units have terminated and the
\* runner has returned, whether the units stored a Response or failed all
\* their attempts.
C27_FiringCompletes ==
    (firing.pc = "wait")
        ~> (firing.pc = "done" /\ \A k \in 1..Len(fu) : fu[k].pc = "done")

\* a firing over four pairs has completed, one unit having failed all its
\* attempts, one having stored at its first attempt and one after a retry
C27_Witness ==
    /\ firing.pc = "done"
    /\ Len(fu) = 4
    /\ \A k \in 1..4 : fu[k].pc = "done"
    /\ \E k \in 1..4 : ~fu[k].stored /\ fu[k].attempt = DefaultMaxRetries
    /\ \E k \in 1..4 : fu[k].stored /\ fu[k].attempt = 1
    /\ \E k \in 1..4 : fu[k].stored /\ fu[k].attempt = 2

\* ------------------------------------------------------------------------
\* Properties of getRateLimiter (checked under SpecLim)

\* C30: for each provider name at most one token bucket is ever created,
\* and all the calls that have returned for a provider hold the same bucket,
\* also those that found none at their first lookup at the same time.
C30_OneBucketPerProvider ==
    /\ \A p \in Providers :
           Cardinality({i \in 1..Len(created) : created[i] = p}) <= 1
    /\ \A c, d \in Callers :
           (/\ gl[c].pc = "returned" /\ gl[d].pc = "returned"
            /\ gl[c].provider = gl[d].provider)
           => gl[c].limiter = gl[d].limiter

\* three units asked for the bucket of the same provider, none found it at
\* the first lookup, and all have returned
C30_Witness ==
    \A c \in Callers :
        /\ gl[c].pc = "returned"
        /\ gl[c].provider = "openai"
        /\ gl[c].missed
        /\ gl[c].limiter # 0

====
